---- MODULE Spec2Model ----
(***************************************************************************)
(* A model of phylofisher/forest.py: the suspicious-clade detector, the    *)
(* candidate selector, the neighbourhood test for contaminations, the      *)
(* redundancy reducer, the problematic-organism aggregator, the            *)
(* backpropagation of contaminations into a classification table and the   *)
(* worker pool that runs the detector over the trees.                      *)
(*                                                                         *)
(* Python strings are sequences of one-character strings, so that split,   *)
(* count, `in' and the f-strings are computed and not assumed.             *)
(* A tree is the ete3 tree after loading (and rooting): its nodes are      *)
(* numbered 1..N in pre-order, node 1 is the root, parent[n] is n's        *)
(* ancestor (0 is Python's None, the `up' of the root).                    *)
(***************************************************************************)
EXTENDS Integers, Sequences, FiniteSets, TLC

VARIABLES
    pc,                 \* the position of the running function
    tree,               \* t: the tree the running function has loaded
    cont_dict,          \* cont_dict of parse_contaminations
    n,                  \* collect_contaminations: the nodes visited so far
    parent,             \* expected_neighborhood: the node it is called on
    contaminations,     \* collect_contaminations: set of leaf names
    cont_table_name,    \* collect_contaminations: set of display names
    suspicious,         \* suspicious_clades: the returned list of clades
    top_seqs,           \* get_best_candidates: the returned set
    result_clades,      \* __main__: the per-tree lists of clades
    nonredundant_clades,\* __main__: nonredundant(result_clades)
    reduced_again,      \* nonredundant applied to its own output
    hashseed,           \* the iteration order of a set of group names
    problematic_orgs,   \* problematic: org -> list of labels
    entries,            \* problematic: what each member of each clade appended
    table,              \* the lines of the classification table on disk
    original_table,     \* the rows of the table before backpropagation
    cont_names,         \* backpropagate_contamination: the display names
    trees,              \* __main__: the list of tree files
    threads,            \* __main__: the number of pool workers
    task,               \* pool: the state of each per-tree task
    results,            \* pool: the result slot of each task
    leaf,               \* the leaf identifier being decoded
    decoded             \* how each component decoded the leaf identifier

vars == <<pc, tree, cont_dict, n, parent, contaminations, cont_table_name,
          suspicious, top_seqs, result_clades, nonredundant_clades,
          reduced_again, hashseed, problematic_orgs, entries, table,
          original_table, cont_names, trees, threads, task, results, leaf,
          decoded>>

None == "None"

(***************************************************************************)
(* Python's str operations on sequences of characters.                     *)
(***************************************************************************)
\* s.find(sep) + 1: the first position of sep in s, 0 when absent
find(s, sep) ==
    LET hits == {k \in 1..(Len(s) - Len(sep) + 1) :
                    SubSeq(s, k, k + Len(sep) - 1) = sep}
    IN  IF hits = {} THEN 0 ELSE CHOOSE k \in hits : \A j \in hits : k <= j

\* sub in s
contains(s, sub) == find(s, sub) # 0

RECURSIVE split(_, _)
\* s.split(sep)
split(s, sep) ==
    LET k == find(s, sep)
    IN  IF k = 0 THEN <<s>>
        ELSE <<SubSeq(s, 1, k - 1)>> \o split(SubSeq(s, k + Len(sep), Len(s)), sep)

\* s.count(sep)
count(s, sep) == Len(split(s, sep)) - 1

Whitespace == {" ", "\t", "\n"}

RECURSIVE strip(_)
\* s.strip()
strip(s) ==
    IF s = <<>> THEN s
    ELSE IF s[1] \in Whitespace THEN strip(Tail(s))
    ELSE IF s[Len(s)] \in Whitespace THEN strip(SubSeq(s, 1, Len(s) - 1))
    ELSE s

Digits == <<"0", "1", "2", "3", "4", "5", "6", "7", "8", "9">>

DigitVal(c) == (CHOOSE k \in 1..10 : Digits[k] = c) - 1

RECURSIVE int(_)
\* int(s) of a string of decimal digits
int(s) ==
    IF Len(s) = 1 THEN DigitVal(s[1])
    ELSE 10 * int(SubSeq(s, 1, Len(s) - 1)) + DigitVal(s[Len(s)])

US == <<"_">>
DD == <<".", ".">>
TAB == <<"\t">>
NL == <<"\n">>
AT == <<"@">>

(***************************************************************************)
(* The Taxon Directory (metadata of parse_metadata) is a fixed input: five *)
(* organisms in three groups.  Every organism code a tree of the model     *)
(* names is a key of it.                                                   *)
(***************************************************************************)
Alpha == <<"A", "l", "p", "h", "a">>
Beta == <<"B", "e", "t", "a">>
Gamma == <<"G", "a", "m", "m", "a">>
Groups == {Alpha, Beta, Gamma}

Orgs == {<<"A">>, <<"B">>, <<"G">>, <<"X">>, <<"Y">>}

metadata ==
    [o \in Orgs |->
        [group  |-> CASE o = <<"A">> -> Alpha
                      [] o = <<"B">> -> Beta
                      [] o = <<"G">> -> Gamma
                      [] o = <<"X">> -> Alpha
                      [] o = <<"Y">> -> Beta,
         subtax |-> CASE o = <<"A">> -> <<"A", "l", "p", "h", "a", "-", "1">>
                      [] o = <<"B">> -> <<"B", "e", "t", "a", "-", "1">>
                      [] o = <<"G">> -> <<"G", "a", "m", "m", "a", "-", "1">>
                      [] o = <<"X">> -> <<"A", "l", "p", "h", "a", "-", "2">>
                      [] o = <<"Y">> -> <<"B", "e", "t", "a", "-", "2">>,
         full   |-> <<"f">> \o o]]

(***************************************************************************)
(* Leaf identifiers.                                                       *)
(***************************************************************************)
Simple(org) == org \o <<"_", "1">>
Paralog(org) == org \o <<".", ".", "p", "_", "1">>
\* a ranked candidate org_<hit>_0_r<rank>b_0
Candidate(org, hit, rank) ==
    org \o <<"_">> \o hit \o <<"_", "0", "_", "r">> \o rank \o <<"b", "_", "0">>

(***************************************************************************)
(* Trees: ete3's Tree, nodes numbered in pre-order.                        *)
(***************************************************************************)
RECURSIVE Anc(_, _)
\* k and its ancestors
Anc(par, k) == IF k = 0 THEN {} ELSE {k} \cup Anc(par, par[k])

RECURSIVE Shapes(_)
\* the parent arrays of the trees of k nodes, numbered in pre-order
Shapes(k) ==
    IF k = 1 THEN {<<0>>}
    ELSE UNION {{Append(p, q) : q \in Anc(p, k - 1)} : p \in Shapes(k - 1)}

Nodes(t) == 1..Len(t.parent)
is_root(t, k) == t.parent[k] = 0
is_leaf(t, k) == \A m \in Nodes(t) : t.parent[m] # k
up(t, k) == t.parent[k]

LeavesOf(p) == {k \in 1..Len(p) : \A m \in 1..Len(p) : p[m] # k}
InnerOf(p) == {k \in 1..Len(p) \ LeavesOf(p) : p[k] # 0}

\* the tree of shape p with leaf names nm and supports sp (ete3 gives a node
\* without a support the support 1.0, and an internal node the name '')
MkTree(p, nm, sp) ==
    [parent  |-> p,
     name    |-> [k \in 1..Len(p) |-> IF k \in LeavesOf(p) THEN nm[k] ELSE <<>>],
     support |-> [k \in 1..Len(p) |-> IF k \in InnerOf(p) THEN sp[k] ELSE 1]]

\* t is a tree of lo..hi nodes, its leaves named from names and its
\* non-root internal nodes given a support from supports
IsTreeOf(t, lo, hi, names, supports) ==
    \E k \in lo..hi : \E p \in Shapes(k) :
        \E nm \in [LeavesOf(p) -> names] : \E sp \in [InnerOf(p) -> supports] :
            t = MkTree(p, nm, sp)

\* t.traverse('preorder'), as the list of the nodes
traverse(t) == [k \in Nodes(t) |-> k]

\* node.get_leaf_names()
get_leaf_names(t, k) ==
    LET Under(m) == is_leaf(t, m) /\ k \in Anc(t.parent, m)
        ls == SelectSeq(traverse(t), Under)
    IN  [j \in 1..Len(ls) |-> t.name[ls[j]]]

\* len(node): the number of leaves under the node
len(t, k) == Len(get_leaf_names(t, k))

\* the characters of a list, as a set
set(l) == {l[j] : j \in 1..Len(l)}

(***************************************************************************)
(* suspicious_clades (lines 42-65)                                         *)
(***************************************************************************)
\* lines 58-61 (and 105-108, 193-196, 305-308, 315-318)
org_of(name) ==
    IF contains(name, DD) THEN split(name, DD)[1] ELSE split(name, US)[1]

\* supported with the minority test made inclusive (<= for <)
supported_inclusive(t, k) ==
    /\ ~is_root(t, k)
    /\ ~is_leaf(t, k)
    /\ t.support[k] >= 70
    /\ len(t, k) <= len(t, 1) - len(t, k)
    /\ Len(get_leaf_names(t, k)) > 1

\* lines 49-52: the node's clade is kept as supported
supported(t, k) ==
    /\ ~is_root(t, k)
    /\ ~is_leaf(t, k)
    /\ t.support[k] >= 70
    /\ len(t, k) < len(t, 1) - len(t, k)
    /\ Len(get_leaf_names(t, k)) > 1

mixed(clade) ==
    Cardinality({metadata[org_of(clade[j])].group : j \in 1..Len(clade)}) > 1

suspicious_clades(t) ==
    LET Sup(k) == supported(t, k)
        nodes == SelectSeq(traverse(t), Sup)
        supported_clades == [j \in 1..Len(nodes) |-> get_leaf_names(t, nodes[j])]
    IN  SelectSeq(supported_clades, mixed)

(***************************************************************************)
(* Variables a function does not use keep None.                            *)
(***************************************************************************)
contVars == <<cont_dict, n, parent, contaminations, cont_table_name>>
redVars == <<result_clades, nonredundant_clades, reduced_again>>
probVars == <<hashseed, problematic_orgs, entries>>
backVars == <<table, original_table, cont_names>>
poolVars == <<trees, threads, task, results>>
dispVars == <<leaf, decoded>>

IdleCont ==
    /\ cont_dict = None /\ n = None /\ parent = None
    /\ contaminations = None /\ cont_table_name = None
IdleRed ==
    result_clades = None /\ nonredundant_clades = None /\ reduced_again = None
IdleProb == hashseed = None /\ problematic_orgs = None /\ entries = None
IdleBack == table = None /\ original_table = None /\ cont_names = None
IdlePool == trees = None /\ threads = None /\ task = None /\ results = None
IdleDisp == leaf = None /\ decoded = None

(***************************************************************************)
(* The suspicious-clade detector on one tree.                              *)
(***************************************************************************)
MaxNodesSus == 7
NamesSus == {Simple(<<"A">>), Paralog(<<"B">>), Candidate(<<"X">>, <<"h">>, <<"1">>)}
SupportsSus == {69, 70}

InitSus ==
    /\ pc = "start"
    /\ IsTreeOf(tree, 3, MaxNodesSus, NamesSus, SupportsSus)
    /\ suspicious = <<>>
    /\ top_seqs = None
    /\ IdleCont /\ IdleRed /\ IdleProb /\ IdleBack /\ IdlePool /\ IdleDisp

\* suspicious_clades(tree), lines 42-65
SuspiciousClades ==
    /\ pc = "start"
    /\ suspicious' = suspicious_clades(tree)
    /\ pc' = "done"
    /\ UNCHANGED <<tree, top_seqs, contVars, redVars, probVars, backVars,
                   poolVars, dispVars>>

NextSus == SuspiciousClades

SpecSus == InitSus /\ [][NextSus]_vars

RECURSIVE Ascending(_)
\* the members of a set of numbers, in increasing order
Ascending(S) ==
    IF S = {} THEN <<>>
    ELSE LET m == CHOOSE x \in S : \A y \in S : x <= y
         IN  <<m>> \o Ascending(S \ {m})

\* the organism code the parser rules give a leaf identifier
ParserOrg(name) ==
    IF \E k \in 1..(Len(name) - 1) : name[k] = "." /\ name[k + 1] = "."
    THEN LET k == CHOOSE k \in 1..(Len(name) - 1) :
                    /\ name[k] = "." /\ name[k + 1] = "."
                    /\ \A j \in 1..(k - 1) : ~(name[j] = "." /\ name[j + 1] = ".")
         IN  SubSeq(name, 1, k - 1)
    ELSE LET k == CHOOSE k \in 1..Len(name) :
                    name[k] = "_" /\ \A j \in 1..(k - 1) : name[j] # "_"
         IN  SubSeq(name, 1, k - 1)

CladeLeaves(t, k) == {m \in Nodes(t) : is_leaf(t, m) /\ k \in Anc(t.parent, m)}

\* the four conditions of a suspicious clade, on node k of tree t
FourConditions(t, k) ==
    LET clade == CladeLeaves(t, k)
        all == CladeLeaves(t, 1)
    IN  /\ k # 1 /\ ~is_leaf(t, k)
        /\ t.support[k] >= 70
        /\ Cardinality(clade) < Cardinality(all) - Cardinality(clade)
        /\ Cardinality(clade) > 1
        /\ Cardinality({metadata[ParserOrg(t.name[m])].group : m \in clade}) > 1

\* C3: suspicious_clades returns exactly the clades (the leaf names, in
\* pre-order) of the non-root internal nodes that have support >= 70, fewer
\* leaves than the rest of the tree, more than one member and more than one
\* group: one entry per such node, in pre-order, and nothing else.
C3_SuspiciousExactlyFour ==
    pc = "done" =>
        LET hit == Ascending({k \in Nodes(tree) : FourConditions(tree, k)})
        IN  /\ Len(suspicious) = Len(hit)
            /\ \A j \in 1..Len(hit) :
                  LET ls == Ascending(CladeLeaves(tree, hit[j]))
                  IN  suspicious[j] = [i \in 1..Len(ls) |-> tree.name[ls[i]]]

\* a tree of the largest size with a suspicious clade
C3_Witness ==
    /\ pc = "done"
    /\ suspicious # <<>>
    /\ Len(tree.parent) = MaxNodesSus

\* a well-supported mixed clade holding exactly half of the leaves is not returned
C3_WitnessHalf ==
    /\ pc = "done"
    /\ suspicious = <<>>
    /\ \E k \in Nodes(tree) :
          /\ ~is_root(tree, k) /\ tree.support[k] >= 70
          /\ 2 * len(tree, k) = len(tree, 1)
          /\ mixed(get_leaf_names(tree, k))

(***************************************************************************)
(* get_best_candidates (lines 68-86)                                       *)
(***************************************************************************)
\* lines 73-82 with `rank <= top_rank[org]' for `rank < top_rank[org]'
update_top_rank_last(top_rank, name) ==
    IF count(name, US) = 4
    THEN LET f == split(name, US)
             org == f[1]
             rank == int(SubSeq(f[4], 2, Len(f[4]) - 1))
             new == [rank |-> rank, candidate |-> name]
         IN  IF org \notin DOMAIN top_rank
             THEN [o \in DOMAIN top_rank \cup {org} |->
                      IF o = org THEN new ELSE top_rank[o]]
             ELSE IF rank <= top_rank[org].rank
                  THEN [top_rank EXCEPT ![org] = new]
                  ELSE top_rank
    ELSE top_rank

\* lines 73-82: one leaf's update of top_rank
update_top_rank(top_rank, name) ==
    IF count(name, US) = 4
    THEN LET f == split(name, US)
             org == f[1]
             rank == int(SubSeq(f[4], 2, Len(f[4]) - 1))
             new == [rank |-> rank, candidate |-> name]
         IN  IF org \notin DOMAIN top_rank
             THEN [o \in DOMAIN top_rank \cup {org} |->
                      IF o = org THEN new ELSE top_rank[o]]
             ELSE IF rank < top_rank[org].rank
                  THEN [top_rank EXCEPT ![org] = new]
                  ELSE top_rank
    ELSE top_rank

RECURSIVE top_rank_from(_, _, _)
\* lines 71-82: the traversal from node k on
top_rank_from(t, k, top_rank) ==
    IF k > Len(t.parent) THEN top_rank
    ELSE top_rank_from(t, k + 1,
            IF is_leaf(t, k) THEN update_top_rank(top_rank, t.name[k])
            ELSE top_rank)

get_best_candidates(t) ==
    LET top_rank == top_rank_from(t, 1, <<>>)
    IN  {top_rank[o].candidate : o \in DOMAIN top_rank}

MaxNodesBest == 5
NamesBest ==
    {Candidate(<<"X">>, <<"h">>, <<"1">>), Candidate(<<"X">>, <<"k">>, <<"1">>),
     Candidate(<<"X">>, <<"h">>, <<"2">>), Candidate(<<"X">>, <<"h">>, <<"1", "0">>),
     Candidate(<<"Y">>, <<"h">>, <<"2">>), Simple(<<"A">>)}

InitBest ==
    /\ pc = "start"
    /\ IsTreeOf(tree, 2, MaxNodesBest, NamesBest, {100})
    /\ top_seqs = {}
    /\ suspicious = None
    /\ IdleCont /\ IdleRed /\ IdleProb /\ IdleBack /\ IdlePool /\ IdleDisp

\* top_ranked = get_best_candidates(tree_file), line 169
GetBestCandidates ==
    /\ pc = "start"
    /\ top_seqs' = get_best_candidates(tree)
    /\ pc' = "done"
    /\ UNCHANGED <<tree, suspicious, contVars, redVars, probVars, backVars,
                   poolVars, dispVars>>

NextBest == GetBestCandidates

SpecBest == InitBest /\ [][NextBest]_vars

\* a Ranked-Candidate identifier: exactly 5 underscore-delimited fields
IsRanked(name) == Len(split(name, US)) = 5
RankedOrg(name) == split(name, US)[1]
RankOf(name) ==
    LET r == split(name, US)[4] IN int(SubSeq(r, 2, Len(r) - 1))
RankedLeaves(t, org) ==
    {k \in Nodes(t) : is_leaf(t, k) /\ IsRanked(t.name[k]) /\ RankedOrg(t.name[k]) = org}

\* C4: get_best_candidates returns one identifier for each organism that has
\* a Ranked-Candidate leaf and none for any other organism; the identifier is
\* that of the first leaf, in pre-order, among the organism's candidates of
\* minimum rank.
C4_BestCandidates ==
    pc = "done" =>
        LET orgs == {RankedOrg(tree.name[k]) :
                        k \in {m \in Nodes(tree) :
                                  is_leaf(tree, m) /\ IsRanked(tree.name[m])}}
            First(org) ==
                CHOOSE k \in RankedLeaves(tree, org) :
                    \A m \in RankedLeaves(tree, org) :
                        \/ RankOf(tree.name[k]) < RankOf(tree.name[m])
                        \/ RankOf(tree.name[k]) = RankOf(tree.name[m]) /\ k <= m
        IN  /\ \A c \in top_seqs : IsRanked(c) /\ RankedOrg(c) \in orgs
            /\ \A org \in orgs :
                  {c \in top_seqs : RankedOrg(c) = org} = {tree.name[First(org)]}

\* two candidates of one organism tie on the minimum rank, after a worse
\* candidate of rank 10, and another organism has no candidate
C4_Witness ==
    /\ pc = "done"
    /\ \E a, b, c, d \in Nodes(tree) :
          /\ a < b /\ b < c
          /\ tree.name[a] = Candidate(<<"X">>, <<"h">>, <<"1", "0">>)
          /\ tree.name[b] = Candidate(<<"X">>, <<"k">>, <<"1">>)
          /\ tree.name[c] = Candidate(<<"X">>, <<"h">>, <<"1">>)
          /\ tree.name[d] = Simple(<<"A">>)
    /\ top_seqs = {Candidate(<<"X">>, <<"k">>, <<"1">>)}

(***************************************************************************)
(* expected_neighborhood, check_contamination and collect_contaminations   *)
(* (lines 98-153)                                                          *)
(***************************************************************************)
Ranks == {"group", "subtax", "org"}

\* lines 103-114: the keywords of the leaves under node p that are not
\* ranked candidates
keywords(t, p, rank) ==
    LET names == get_leaf_names(t, p)
        ctx == {j \in 1..Len(names) : count(names[j], US) # 4}
    IN  {CASE rank = "group" -> metadata[org_of(names[j])].group
           [] rank = "subtax" -> metadata[org_of(names[j])].subtax
           [] rank = "org" -> org_of(names[j]) : j \in ctx}

\* lines 115-122: the answer of a non-empty set of keywords
verdict(kw, key) ==
    IF Cardinality(kw) = 1
    THEN (IF contains(CHOOSE w \in kw : TRUE, key) THEN "True" ELSE "False")
    ELSE "False"

RECURSIVE expected_neighborhood(_, _, _)
\* lines 98-123; p = 0 is None, whose get_leaf_names raises AttributeError
expected_neighborhood(t, p, cont_key_rank) ==
    LET key == cont_key_rank[1]
        rank == cont_key_rank[2]
    IN  IF rank \notin Ranks THEN "AssertionError"
        ELSE IF p = 0 THEN "AttributeError"
        ELSE IF keywords(t, p, rank) # {} THEN verdict(keywords(t, p, rank), key)
        ELSE expected_neighborhood(t, up(t, p), cont_key_rank)

\* lines 149-151 with the test negated: the leaf is kept when the
\* neighbourhood does not match
check_contamination_negated(answer) == answer = "False"

\* lines 126-130 and 149: check_contamination(node, cont_dict) is True
check_contamination(answer) == answer = "True"

\* line 146
quality_of(name) ==
    LET f == split(name, US)
    IN  f[Len(f) - 2] \o US \o f[Len(f) - 1] \o US \o f[Len(f)]

\* line 147
table_name_of(name) ==
    LET org == split(name, US)[1]
    IN  metadata[org].full \o US \o quality_of(name) \o AT \o org

MaxNodesCont == 5
cXh == Candidate(<<"X">>, <<"h">>, <<"1">>)
cXk == Candidate(<<"X">>, <<"k">>, <<"1">>)
cY == Candidate(<<"Y">>, <<"h">>, <<"2">>)
NamesCont == {cXh, cY, Simple(<<"A">>), Paralog(<<"B">>)}

\* the Contamination Directories of the model: organism -> (key, rank)
ContDicts ==
    {[o \in {<<"X">>} |-> <<Alpha, "group">>],
     [o \in {<<"X">>, <<"Y">>} |->
        IF o = <<"X">> THEN <<Beta, "group">> ELSE <<Alpha, "subtax">>],
     [o \in {<<"X">>} |-> <<<<"B">>, "org">>],
     [o \in {<<"Y">>} |-> <<Beta, "genus">>]}

InitCont ==
    /\ pc = "traverse"
    /\ IsTreeOf(tree, 2, MaxNodesCont, NamesCont, {100})
    /\ cont_dict \in ContDicts
    /\ n = 0
    /\ parent = None
    /\ contaminations = {}
    /\ cont_table_name = {}
    /\ suspicious = None /\ top_seqs = None
    /\ IdleRed /\ IdleProb /\ IdleBack /\ IdlePool /\ IdleDisp

contIdle == <<tree, cont_dict, suspicious, top_seqs, redVars, probVars,
              backVars, poolVars, dispVars>>

\* the node the traversal is at
node == n + 1

IsChecked(t, k, cd) ==
    /\ is_leaf(t, k)
    /\ count(t.name[k], US) = 4
    /\ split(t.name[k], US)[1] \in DOMAIN cd

\* lines 141-152, a node that is not checked: only n += 1
VisitNode ==
    /\ pc = "traverse"
    /\ node <= Len(tree.parent)
    /\ ~IsChecked(tree, node, cont_dict)
    /\ n' = n + 1
    /\ UNCHANGED <<pc, parent, contaminations, cont_table_name, contIdle>>

\* lines 148-149 and 126-128: check_contamination calls
\* expected_neighborhood(node.up, cont_dict[org])
CheckContamination ==
    /\ pc = "traverse"
    /\ node <= Len(tree.parent)
    /\ IsChecked(tree, node, cont_dict)
    /\ pc' = "expected_neighborhood"
    /\ parent' = up(tree, node)
    /\ UNCHANGED <<n, contaminations, cont_table_name, contIdle>>

\* lines 98-123, one call of expected_neighborhood(parent, cont_key_rank):
\* it raises, or answers (and lines 149-152 follow), or calls itself on
\* parent.up
ExpectedNeighborhood ==
    /\ pc = "expected_neighborhood"
    /\ LET name == tree.name[node]
           ckr == cont_dict[split(name, US)[1]]
       IN  IF ckr[2] \notin Ranks
           THEN /\ pc' = "AssertionError"
                /\ UNCHANGED <<n, parent, contaminations, cont_table_name>>
           ELSE IF parent = 0
           THEN /\ pc' = "AttributeError"
                /\ UNCHANGED <<n, parent, contaminations, cont_table_name>>
           ELSE IF keywords(tree, parent, ckr[2]) # {}
           THEN LET answer == verdict(keywords(tree, parent, ckr[2]), ckr[1])
                IN  /\ contaminations' =
                          IF check_contamination(answer)
                          THEN contaminations \cup {name} ELSE contaminations
                    /\ cont_table_name' =
                          IF check_contamination(answer)
                          THEN cont_table_name \cup {table_name_of(name)}
                          ELSE cont_table_name
                    /\ n' = n + 1
                    /\ parent' = None
                    /\ pc' = "traverse"
           ELSE /\ parent' = up(tree, parent)
                /\ UNCHANGED <<pc, n, contaminations, cont_table_name>>
    /\ UNCHANGED contIdle

\* line 153
ReturnContaminations ==
    /\ pc = "traverse"
    /\ node > Len(tree.parent)
    /\ pc' = "done"
    /\ UNCHANGED <<n, parent, contaminations, cont_table_name, contIdle>>

NextCont ==
    \/ VisitNode
    \/ CheckContamination
    \/ ExpectedNeighborhood
    \/ ReturnContaminations

SpecCont == InitCont /\ [][NextCont]_vars

\* the Ranked-Candidate leaves the traversal has dealt with
VisitedRanked == {k \in 1..n : is_leaf(tree, k) /\ IsRanked(tree.name[k])}

\* the neighbourhood test of leaf k answers `answer'
TestAnswers(k, answer) ==
    /\ RankedOrg(tree.name[k]) \in DOMAIN cont_dict
    /\ expected_neighborhood(tree, up(tree, k),
                             cont_dict[RankedOrg(tree.name[k])]) = answer

\* C1 (as amended): a Ranked-Candidate leaf the traversal has visited is in
\* the contaminant set if and only if its organism code is a key of the
\* Contamination Directory and expected_neighborhood, started at the leaf's
\* parent, returns True (leaves that share one identifier share its
\* membership); a test that raises returns nothing and adds nothing.
C1_ContaminantIffTestTrue ==
    /\ \A c \in contaminations : \E k \in VisitedRanked : tree.name[k] = c
    /\ \A k \in VisitedRanked :
          tree.name[k] \in contaminations <=>
              \E m \in VisitedRanked :
                  tree.name[m] = tree.name[k] /\ TestAnswers(m, "True")

\* the directory names Alpha at rank group for X: the candidate of X whose
\* neighbourhood is Alpha alone has been placed in the contaminant set
C1_Witness ==
    /\ pc = "done"
    /\ cont_dict = [o \in {<<"X">>} |-> <<Alpha, "group">>]
    /\ contaminations = {cXh}
    /\ \E k \in Nodes(tree) :
          /\ tree.name[k] = cXh
          /\ keywords(tree, up(tree, k), "group") = {Alpha}

\* C1 (as stated): a Ranked-Candidate leaf is in the contaminant set if and
\* only if its organism code is a key of the Contamination Directory and the
\* neighbourhood test returns false.
C1_ContaminantIffTestFalse ==
    pc = "done" =>
        \A k \in VisitedRanked :
            tree.name[k] \in contaminations <=> TestAnswers(k, "False")

\* C2: expected_neighborhood is never called on the missing parent of the
\* root and never raises AttributeError: a walk that finds no context up to
\* the root ends with an answer.
C2_StopsAtRoot ==
    /\ pc = "expected_neighborhood" => parent # 0
    /\ pc # "AttributeError"

(***************************************************************************)
(* nonredundant (lines 283-297)                                            *)
(***************************************************************************)
RECURSIVE insert_by_len(_, _)
\* c placed after the clades of sorted list l that are not longer than c
insert_by_len(l, c) ==
    IF l = <<>> THEN <<c>>
    ELSE IF Len(l[Len(l)]) <= Len(c) THEN Append(l, c)
    ELSE Append(insert_by_len(SubSeq(l, 1, Len(l) - 1), c), l[Len(l)])

RECURSIVE sorted_by_len(_)
\* line 287: sorted(clades, key=lambda clade: len(clade)), a stable sort
sorted_by_len(clades) ==
    IF clades = <<>> THEN <<>>
    ELSE insert_by_len(sorted_by_len(SubSeq(clades, 1, Len(clades) - 1)),
                       clades[Len(clades)])

\* lines 287-296 with sorted_sets[i+1:i+2] for sorted_sets[i+1:]: a clade is
\* compared with the next clade only
nonredundant_of_next_only(clades) ==
    LET sorted_clades == sorted_by_len(clades)
        sorted_sets == [i \in 1..Len(sorted_clades) |-> set(sorted_clades[i])]
        Kept(i) == ~\E j \in {i + 1} \cap (1..Len(sorted_sets)) :
                        sorted_sets[i] \subseteq sorted_sets[j]
        kept == SelectSeq([i \in 1..Len(sorted_sets) |-> i], Kept)
    IN  [j \in 1..Len(kept) |-> sorted_sets[kept[j]]]

\* lines 287-296: the clades of one tree that are in no later clade of the
\* sorted list
nonredundant_of(clades) ==
    LET sorted_clades == sorted_by_len(clades)
        sorted_sets == [i \in 1..Len(sorted_clades) |-> set(sorted_clades[i])]
        Kept(i) == ~\E j \in (i + 1)..Len(sorted_sets) :
                        sorted_sets[i] \subseteq sorted_sets[j]
        kept == SelectSeq([i \in 1..Len(sorted_sets) |-> i], Kept)
    IN  [j \in 1..Len(kept) |-> sorted_sets[kept[j]]]

RECURSIVE nonredundant(_)
\* lines 283-297
nonredundant(clades_of_trees) ==
    IF clades_of_trees = <<>> THEN <<>>
    ELSE nonredundant(SubSeq(clades_of_trees, 1, Len(clades_of_trees) - 1))
         \o nonredundant_of(clades_of_trees[Len(clades_of_trees)])

RECURSIVE list(_)
\* the members of a set, listed in some order
list(S) ==
    IF S = {} THEN <<>>
    ELSE LET x == CHOOSE x \in S : TRUE IN <<x>> \o list(S \ {x})

MaxClades == 3
lA == Simple(<<"A">>)
lB == Paralog(<<"B">>)
\* the clades the lists of the model are made of
CladePool ==
    {<<lA>>, <<lA, lB>>, <<lB, lA>>, <<lB, cXh>>, <<lA, lB, cXh>>, <<lA, lA, lA>>}

\* the clades of up to MaxClades nodes, of one tree or shared out among two
InitRed ==
    /\ pc = "start"
    /\ \E k \in 0..MaxClades : \E l \in [1..k -> CladePool] :
          \/ result_clades = <<l>>
          \/ \E i \in 0..k :
                result_clades = <<SubSeq(l, 1, i), SubSeq(l, i + 1, k)>>
    /\ nonredundant_clades = <<>>
    /\ reduced_again = <<>>
    /\ tree = None /\ suspicious = None /\ top_seqs = None
    /\ IdleCont /\ IdleProb /\ IdleBack /\ IdlePool /\ IdleDisp

redIdle == <<tree, suspicious, top_seqs, contVars, probVars, backVars,
             poolVars, dispVars>>

\* line 417: nonredundant_clades = nonredundant(result_clades)
Nonredundant ==
    /\ pc = "start"
    /\ nonredundant_clades' = nonredundant(result_clades)
    /\ pc' = "reduced"
    /\ UNCHANGED <<result_clades, reduced_again, redIdle>>

\* nonredundant run on its own output: the retained clades are the one list
\* of clades to reduce
NonredundantAgain ==
    /\ pc = "reduced"
    /\ reduced_again' =
          nonredundant(<<[j \in 1..Len(nonredundant_clades) |->
                            list(nonredundant_clades[j])]>>)
    /\ pc' = "reduced twice"
    /\ UNCHANGED <<result_clades, nonredundant_clades, redIdle>>

NextRed == Nonredundant \/ NonredundantAgain

SpecRed == InitRed /\ [][NextRed]_vars

NoRepeat(clade) == Cardinality(set(clade)) = Len(clade)

\* no clade of the list is contained in (or equal to) another clade of it
Antichain(l) ==
    \A i, j \in 1..Len(l) : i # j => ~(l[i] \subseteq l[j])

\* C5 (as amended): nonredundant run on its own output yields the same set
\* of clades whenever the clades are those of one tree and hold no repeated
\* leaf name and, for any input, whenever no clade the first run retained is
\* contained in (or equal to) another clade it retained.
C5_IdempotentOneTree ==
    pc = "reduced twice" =>
        /\ (/\ Len(result_clades) = 1
            /\ \A j \in 1..Len(result_clades[1]) : NoRepeat(result_clades[1][j]))
              => set(reduced_again) = set(nonredundant_clades)
        /\ Antichain(nonredundant_clades)
              => set(reduced_again) = set(nonredundant_clades)

\* one tree with a nested clade and two overlapping ones: the first run
\* dropped the nested one, the second run was given the two others and
\* dropped nothing
C5_Witness ==
    /\ pc = "reduced twice"
    /\ result_clades = << <<<<lA, lB>>, <<lB, cXh>>, <<lA>>>> >>
    /\ nonredundant_clades = <<{lA, lB}, {lB, cXh}>>
    /\ reduced_again = nonredundant_clades

\* C5 (as stated): for any list of per-tree clade lists, nonredundant run on
\* its own output yields the same set of clades.
C5_Idempotent ==
    pc = "reduced twice" => set(reduced_again) = set(nonredundant_clades)

(***************************************************************************)
(* problematic (lines 300-323)                                             *)
(***************************************************************************)
Unspecified == <<"u", "n", "s", "p", "e", "c", "i", "f", "i", "e", "d">>

group_of(seq) == metadata[org_of(seq)].group

\* taxons.count(tax) of lines 303-312
taxons_count(clade, tax) == Cardinality({seq \in clade : group_of(seq) = tax})

\* line 313: max(group_perc, key=group_perc.get), the first group of the
\* highest share in the iteration order of set(taxons); the order is that of
\* the hash seed of the run
max_perc(clade, seed) ==
    LET present == {i \in 1..Len(seed) : taxons_count(clade, seed[i]) > 0}
        best == {i \in present : \A j \in present :
                    taxons_count(clade, seed[j]) <= taxons_count(clade, seed[i])}
    IN  seed[CHOOSE i \in best : \A j \in best : i <= j]

\* lines 319-322: what member seq of the clade appends; the share
\* (count/len)*100 is 50 exactly when 100*count = 50*len
appended(clade, seq, seed) ==
    IF 100 * taxons_count(clade, group_of(seq)) = 50 * Cardinality(clade)
    THEN Unspecified
    ELSE max_perc(clade, seed)

\* lines 302-322: one clade's appends to the defaultdict problematic_orgs_;
\* the members of one organism append the same label, once each
problematic_clade(table_, clade, seed) ==
    LET orgs == {org_of(seq) : seq \in clade}
        old(o) == IF o \in DOMAIN table_ THEN table_[o] ELSE <<>>
        new(o) ==
            LET mine == {seq \in clade : org_of(seq) = o}
            IN  IF mine = {} THEN <<>>
                ELSE [i \in 1..Cardinality(mine) |->
                        appended(clade, CHOOSE seq \in mine : TRUE, seed)]
    IN  [o \in DOMAIN table_ \cup orgs |-> old(o) \o new(o)]

RECURSIVE problematic(_, _)
\* lines 300-323
problematic(clades, seed) ==
    IF clades = <<>> THEN <<>>
    ELSE problematic_clade(problematic(SubSeq(clades, 1, Len(clades) - 1), seed),
                           clades[Len(clades)], seed)

\* the orders in which a set of the three group names can be iterated
HashSeeds ==
    {<<Alpha, Beta, Gamma>>, <<Alpha, Gamma, Beta>>, <<Beta, Alpha, Gamma>>,
     <<Beta, Gamma, Alpha>>, <<Gamma, Alpha, Beta>>, <<Gamma, Beta, Alpha>>}

MaxCladesProb == 2
NamesProb ==
    {Simple(<<"A">>), Paralog(<<"A">>), cXh, Paralog(<<"B">>), Simple(<<"G">>)}

InitProb ==
    /\ pc = "clades"
    /\ \E k \in 1..MaxCladesProb :
          nonredundant_clades \in [1..k -> (SUBSET NamesProb) \ {{}}]
    /\ hashseed \in HashSeeds
    /\ problematic_orgs = <<>>
    /\ entries = <<>>
    /\ result_clades = None /\ reduced_again = None
    /\ tree = None /\ suspicious = None /\ top_seqs = None
    /\ IdleCont /\ IdleBack /\ IdlePool /\ IdleDisp

probIdle == <<tree, suspicious, top_seqs, contVars, backVars, poolVars,
              dispVars, result_clades, reduced_again, nonredundant_clades,
              hashseed>>

\* lines 302-322: the next clade of the loop; entries records what each of
\* its members appended
ProblematicClade ==
    /\ pc = "clades"
    /\ Len(entries) < Len(nonredundant_clades)
    /\ LET clade == nonredundant_clades[Len(entries) + 1]
       IN  /\ problematic_orgs' = problematic_clade(problematic_orgs, clade, hashseed)
           /\ entries' = Append(entries,
                                [seq \in clade |-> appended(clade, seq, hashseed)])
    /\ UNCHANGED <<pc, probIdle>>

\* line 323
ReturnProblematic ==
    /\ pc = "clades"
    /\ Len(entries) = Len(nonredundant_clades)
    /\ pc' = "done"
    /\ UNCHANGED <<problematic_orgs, entries, probIdle>>

NextProb == ProblematicClade \/ ReturnProblematic

SpecProb == InitProb /\ [][NextProb]_vars

\* the members of clade c whose group is g, and the groups of c
OfGroup(c, g) == {seq \in c : metadata[ParserOrg(seq)].group = g}
GroupsIn(c) == {metadata[ParserOrg(seq)].group : seq \in c}

\* C6: every member of every retained clade appends one entry to its
\* organism's list: 'unspecified' if its own group holds exactly half of the
\* clade, otherwise a group of the highest share; and a member receives
\* 'unspecified' only in a symmetric tie of two groups.
C6_UnspecifiedOnlyInTie ==
    /\ \A o \in DOMAIN problematic_orgs :
          Len(problematic_orgs[o]) =
              Cardinality({<<j, seq>> \in (1..Len(entries)) \X NamesProb :
                              /\ seq \in nonredundant_clades[j]
                              /\ ParserOrg(seq) = o})
    /\ \A j \in 1..Len(entries) :
          LET c == nonredundant_clades[j]
          IN  \A seq \in c :
                LET own == OfGroup(c, metadata[ParserOrg(seq)].group)
                IN  /\ 2 * Cardinality(own) = Cardinality(c)
                        => entries[j][seq] = Unspecified
                    /\ 2 * Cardinality(own) # Cardinality(c)
                        => /\ entries[j][seq] \in GroupsIn(c)
                           /\ \A g \in GroupsIn(c) :
                                 Cardinality(OfGroup(c, g)) <=
                                    Cardinality(OfGroup(c, entries[j][seq]))
                    /\ entries[j][seq] = Unspecified
                        => /\ Cardinality(GroupsIn(c)) = 2
                           /\ \A g \in GroupsIn(c) :
                                 2 * Cardinality(OfGroup(c, g)) = Cardinality(c)

\* C6 without its last clause: what the code does hold to
C6_EntryRule ==
    \A j \in 1..Len(entries) :
        LET c == nonredundant_clades[j]
        IN  \A seq \in c :
              LET own == OfGroup(c, metadata[ParserOrg(seq)].group)
              IN  /\ 2 * Cardinality(own) = Cardinality(c)
                      => entries[j][seq] = Unspecified
                  /\ 2 * Cardinality(own) # Cardinality(c)
                      => /\ entries[j][seq] \in GroupsIn(c)
                         /\ \A g \in GroupsIn(c) :
                               Cardinality(OfGroup(c, g)) <=
                                  Cardinality(OfGroup(c, entries[j][seq]))

(***************************************************************************)
(* backpropagate_contamination (lines 354-372).  The classification table  *)
(* is the text of the file <tree_base>.tsv.                                *)
(***************************************************************************)
RECURSIVE readlines(_)
\* file.readlines(): the lines, each with its line end
readlines(text) ==
    IF text = <<>> THEN <<>>
    ELSE LET k == find(text, NL)
         IN  IF k = 0 THEN <<text>>
             ELSE <<SubSeq(text, 1, k)>> \o readlines(SubSeq(text, k + 1, Len(text)))

\* table.write(f'{name}\t{group}\t{status}\n'), lines 228, 235, 240, 253,
\* 264 and 372
row(name, tax, status) == name \o TAB \o tax \o TAB \o status \o NL

RECURSIVE rewrite_nostrip(_, _)
\* lines 364-372 with status = sline[2], its line end kept
rewrite_nostrip(lines, names) ==
    IF lines = <<>> THEN <<>>
    ELSE LET sline == split(lines[1], TAB)
             name == sline[1]
             tax == sline[2]
             status == IF name \in names THEN <<"d">> ELSE sline[3]
         IN  row(name, tax, status) \o rewrite_nostrip(Tail(lines), names)

RECURSIVE rewrite(_, _)
\* lines 364-372: the rows written back, one for each line read
rewrite(lines, names) ==
    IF lines = <<>> THEN <<>>
    ELSE LET sline == split(lines[1], TAB)
             name == sline[1]
             tax == sline[2]
             status == IF name \in names THEN <<"d">> ELSE strip(sline[3])
         IN  row(name, tax, status) \o rewrite(Tail(lines), names)

\* lines 361-372: the text of the file after the call
backpropagate_contamination(text, names) == rewrite(readlines(text), names)

\* lines 241 and 265: the display name of a leaf that is not a paralog
display_simple(name) ==
    LET f == split(name, US)
    IN  metadata[f[1]].full \o US \o f[2] \o AT \o f[1]

RECURSIVE concat(_)
\* ''.join(rows)
concat(rows) == IF rows = <<>> THEN <<>> ELSE rows[1] \o concat(Tail(rows))

MaxRows == 2
DisplayNames == {table_name_of(cXh), table_name_of(cY), display_simple(lA)}
Statuses == {<<"o">>, <<"p">>, <<"d">>}
Rows == [name : DisplayNames, tax : {Alpha, Beta}, status : Statuses]

\* the text of a table of the given rows
written(rows) ==
    concat([i \in 1..Len(rows) |-> row(rows[i].name, rows[i].tax, rows[i].status)])

InitBack ==
    /\ pc = "written"
    /\ \E k \in 0..MaxRows : \E rows \in [1..k -> Rows] :
          /\ table = written(rows)
          /\ original_table = rows
    /\ cont_names \in SUBSET DisplayNames
    /\ tree = None /\ suspicious = None /\ top_seqs = None
    /\ IdleCont /\ IdleRed /\ IdleProb /\ IdlePool /\ IdleDisp

backIdle == <<tree, suspicious, top_seqs, contVars, redVars, probVars,
              poolVars, dispVars, original_table, cont_names>>

\* line 426, on the table a run has written
Backpropagate ==
    /\ pc = "written"
    /\ table' = backpropagate_contamination(table, cont_names)
    /\ pc' = "backpropagated"
    /\ UNCHANGED backIdle

\* line 426 once more, with the same display names
BackpropagateAgain ==
    /\ pc = "backpropagated"
    /\ table' = backpropagate_contamination(table, cont_names)
    /\ pc' = "backpropagated twice"
    /\ UNCHANGED backIdle

NextBack == Backpropagate \/ BackpropagateAgain

SpecBack == InitBack /\ [][NextBack]_vars

\* the rows with the status of those named in names set to d: the same
\* rows in the same order, each with its name and group
Revised(rows, names) ==
    [i \in 1..Len(rows) |->
        [rows[i] EXCEPT !.status = IF rows[i].name \in names THEN <<"d">> ELSE @]]

\* C7: backpropagate_contamination leaves the rows, their order, their names
\* and groups as they were, sets the status of the rows whose display name
\* is a contaminant to d and keeps every other status; a second application
\* leaves the same table.
C7_OnlyStatusOfMatches ==
    pc \in {"backpropagated", "backpropagated twice"} =>
        table = written(Revised(original_table, cont_names))

\* a table of two rows of which the first is a contaminant and the second,
\* a paralog, is not: after the second application
C7_Witness ==
    /\ pc = "backpropagated twice"
    /\ cont_names = {table_name_of(cXh)}
    /\ original_table =
          <<[name |-> table_name_of(cXh), tax |-> Alpha, status |-> <<"o">>],
            [name |-> table_name_of(cY), tax |-> Beta, status |-> <<"p">>]>>
    /\ table = row(table_name_of(cXh), Alpha, <<"d">>)
               \o row(table_name_of(cY), Beta, <<"p">>)

(***************************************************************************)
(* trees_plus_table and the suspicious-clade stage of __main__ (lines      *)
(* 277-280 and 405-419).  A tree file is its path and the tree it holds;   *)
(* paths are numbers, ordered as the path strings are.                     *)
(***************************************************************************)
MaxFiles == 2
MaxThreads == 2

\* one mixed clade of two groups in a tree of five leaves
PoolTree1 ==
    MkTree(<<0, 1, 2, 2, 1, 1, 1>>,
           <<<<>>, <<>>, lA, lB, Simple(<<"G">>), cXh, Simple(<<"B">>)>>,
           <<1, 70, 1, 1, 1, 1, 1>>)
\* a mixed clade of three groups and, nested in it, one of two, in a tree
\* of seven leaves
PoolTree2 ==
    MkTree(<<0, 1, 2, 3, 3, 2, 1, 1, 1, 1>>,
           <<<<>>, <<>>, <<>>, lA, lB, Simple(<<"G">>), cXh, Simple(<<"B">>),
             Simple(<<"Y">>), Paralog(<<"A">>)>>,
           <<1, 70, 100, 1, 1, 1, 1, 1, 1, 1>>)
\* the first tree with a support below 70: no suspicious clade
PoolTree3 ==
    MkTree(<<0, 1, 2, 2, 1, 1, 1>>,
           <<<<>>, <<>>, lA, lB, Simple(<<"G">>), cXh, Simple(<<"B">>)>>,
           <<1, 69, 1, 1, 1, 1, 1>>)
PoolTrees == {PoolTree1, PoolTree2, PoolTree3}

\* the orders in which glob can list the files 1..k
GlobOrders(k) ==
    {f \in [1..k -> 1..k] : \A i, j \in 1..k : i # j => f[i] # f[j]}

InitPool ==
    /\ pc = "pool"
    /\ \E k \in 1..MaxFiles : \E f \in GlobOrders(k) :
          \E held \in [1..k -> PoolTrees] :
             /\ trees = [i \in 1..k |-> [file |-> f[i], tree |-> held[f[i]]]]
             /\ task = [i \in 1..k |-> "queued"]
             /\ results = [i \in 1..k |-> None]
    /\ threads \in 1..MaxThreads
    /\ hashseed \in HashSeeds
    /\ suspicious = <<>>
    /\ result_clades = <<>>
    /\ nonredundant_clades = <<>>
    /\ problematic_orgs = <<>>
    /\ reduced_again = None /\ entries = None
    /\ tree = None /\ top_seqs = None
    /\ IdleCont /\ IdleBack /\ IdleDisp

poolIdle == <<tree, top_seqs, contVars, backVars, dispVars, reduced_again,
              entries, hashseed, trees, threads>>

\* a free worker of the pool takes the next task of the queue
StartTask(i) ==
    /\ pc = "pool"
    /\ task[i] = "queued"
    /\ \A j \in 1..(i - 1) : task[j] # "queued"
    /\ Cardinality({j \in DOMAIN task : task[j] = "running"}) < threads
    /\ task' = [task EXCEPT ![i] = "running"]
    /\ UNCHANGED <<pc, results, suspicious, result_clades, nonredundant_clades,
                   problematic_orgs, poolIdle>>

\* a worker returns suspicious_clades(tree) = (tree, suspicious), line 65,
\* into the slot of its task
FinishTask(i) ==
    /\ pc = "pool"
    /\ task[i] = "running"
    /\ task' = [task EXCEPT ![i] = "done"]
    /\ results' = [results EXCEPT
                      ![i] = <<trees[i].file, suspicious_clades(trees[i].tree)>>]
    /\ UNCHANGED <<pc, suspicious, result_clades, nonredundant_clades,
                   problematic_orgs, poolIdle>>

\* pool.map returns as soon as one task has returned
some_returned(task_) == \E i \in DOMAIN task_ : task_[i] = "done"

\* line 279: pool.map returns when every task has returned
all_returned(task_) == \A i \in DOMAIN task_ : task_[i] = "done"

RECURSIVE insert_by_file(_, _)
insert_by_file(l, r) ==
    IF l = <<>> THEN <<r>>
    ELSE IF l[Len(l)][1] <= r[1] THEN Append(l, r)
    ELSE Append(insert_by_file(SubSeq(l, 1, Len(l) - 1), r), l[Len(l)])

RECURSIVE sorted(_)
\* line 407: sorted(suspicious), tuples (file, clades) of distinct files
sorted(l) ==
    IF l = <<>> THEN <<>>
    ELSE insert_by_file(sorted(SubSeq(l, 1, Len(l) - 1)), l[Len(l)])

\* lines 279-280 and 406-407: the results in the order of the tasks, sorted
JoinPool ==
    /\ pc = "pool"
    /\ all_returned(task)
    /\ LET IsResult(r) == r # None
       IN  suspicious' = sorted(SelectSeq(results, IsResult))
    /\ pc' = "merged"
    /\ UNCHANGED <<task, results, result_clades, nonredundant_clades,
                   problematic_orgs, poolIdle>>

\* lines 416-418
Aggregate ==
    /\ pc = "merged"
    /\ LET clades == [i \in 1..Len(suspicious) |-> suspicious[i][2]]
       IN  /\ result_clades' = clades
           /\ nonredundant_clades' = nonredundant(clades)
           /\ problematic_orgs' = problematic(nonredundant(clades), hashseed)
    /\ pc' = "done"
    /\ UNCHANGED <<task, results, suspicious, poolIdle>>

NextPool ==
    \/ \E i \in DOMAIN task : StartTask(i)
    \/ \E i \in DOMAIN task : FinishTask(i)
    \/ JoinPool
    \/ Aggregate

SpecPool == InitPool /\ [][NextPool]_vars

\* the tree held by the file of path f
HeldBy(f) == (CHOOSE i \in DOMAIN trees : trees[i].file = f)

\* C8: whatever the number of workers and the order in which the tasks
\* return, the merged list is the list of the files' results in the order
\* of the files, the aggregation starts only when every task has returned,
\* no worker has written the table, and the table is the one the clades in
\* that order give.
C8_DeterministicMerge ==
    /\ pc = "pool" => /\ suspicious = <<>>
                      /\ problematic_orgs = <<>>
    /\ pc \in {"merged", "done"} =>
          /\ \A i \in DOMAIN task : task[i] = "done"
          /\ Len(suspicious) = Len(trees)
          /\ \A f \in 1..Len(trees) :
                suspicious[f] =
                   <<f, suspicious_clades(trees[HeldBy(f)].tree)>>
    /\ pc = "done" =>
          problematic_orgs =
             problematic(
                nonredundant([f \in 1..Len(trees) |->
                                 suspicious_clades(trees[HeldBy(f)].tree)]),
                hashseed)

\* two files that glob listed out of order, handled by two workers, have
\* been merged and aggregated; the table names the organisms of both
\* files' clades
C8_Witness ==
    /\ pc = "done"
    /\ Len(trees) = 2 /\ trees[1].file = 2
    /\ threads = 2
    /\ trees[1].tree = PoolTree1 /\ trees[2].tree = PoolTree2
    /\ DOMAIN problematic_orgs = {<<"A">>, <<"B">>, <<"G">>}

\* the second task has returned and the first is still running
C8_OutOfOrder ==
    /\ pc = "pool" /\ Len(trees) = 2
    /\ task[1] = "running" /\ task[2] = "done"

(***************************************************************************)
(* How each component decodes a leaf identifier: the variants the branch   *)
(* it takes stands for, and the organism code it derives, if it derives    *)
(* one.                                                                    *)
(***************************************************************************)
Decoded(variants, org) == [variants |-> variants, hasorg |-> TRUE, org |-> org]
NoOrg(variants) == [variants |-> variants, hasorg |-> FALSE, org |-> <<>>]

\* lines 58-61 of suspicious_clades and 305-308, 315-318 of problematic
decode_by_double_dot(name) ==
    IF contains(name, DD) THEN Decoded({"Paralog"}, split(name, DD)[1])
    ELSE Decoded({"Ranked", "Simple"}, split(name, US)[1])

\* lines 73-74 of get_best_candidates and 143-145 of collect_contaminations
decode_by_count(name) ==
    IF count(name, US) = 4 THEN Decoded({"Ranked"}, split(name, US)[1])
    ELSE NoOrg({"Paralog", "Simple"})

\* lines 104-108 of expected_neighborhood
decode_context(name) ==
    IF count(name, US) # 4
    THEN (IF contains(name, DD) THEN Decoded({"Paralog"}, split(name, DD)[1])
          ELSE Decoded({"Simple"}, split(name, US)[1]))
    ELSE NoOrg({"Ranked"})

\* lines 213-216, 244-247 and 257-258 of tree_to_pdf; org, length =
\* org.split('_') raises ValueError unless there are two fields
decode_table(name) ==
    IF count(name, US) = 4 THEN Decoded({"Ranked"}, split(name, US)[1])
    ELSE IF Len(split(name, US)) # 2 THEN NoOrg({"ValueError"})
    ELSE IF contains(name, DD)
    THEN Decoded({"Paralog"}, split(split(name, US)[1], DD)[1])
    ELSE Decoded({"Simple"}, split(name, US)[1])

Components ==
    {"suspicious_clades", "get_best_candidates", "expected_neighborhood",
     "collect_contaminations", "problematic", "tree_to_pdf"}

decode(component, name) ==
    CASE component \in {"suspicious_clades", "problematic"} ->
            decode_by_double_dot(name)
      [] component \in {"get_best_candidates", "collect_contaminations"} ->
            decode_by_count(name)
      [] component = "expected_neighborhood" -> decode_context(name)
      [] component = "tree_to_pdf" -> decode_table(name)

\* simple, paralog and ranked identifiers of three organisms, and the ranked
\* identifiers of their paralogs
NamesDisp ==
    UNION {{Simple(o), Paralog(o), Candidate(o, <<"h">>, <<"1">>),
            Candidate(o \o <<".", ".", "p">>, <<"h">>, <<"1">>)} :
              o \in {<<"A">>, <<"B">>, <<"X">>}}

InitDisp ==
    /\ pc = "decode"
    /\ leaf \in NamesDisp
    /\ decoded = <<>>
    /\ tree = None /\ suspicious = None /\ top_seqs = None
    /\ IdleCont /\ IdleRed /\ IdleProb /\ IdleBack /\ IdlePool

\* a component meets the leaf and decodes its identifier
Decode(component) ==
    /\ pc = "decode"
    /\ component \notin DOMAIN decoded
    /\ decoded' = [c \in DOMAIN decoded \cup {component} |->
                      IF c = component THEN decode(component, leaf)
                      ELSE decoded[c]]
    /\ UNCHANGED <<pc, leaf, tree, suspicious, top_seqs, contVars, redVars,
                   probVars, backVars, poolVars>>

NextDisp == \E component \in Components : Decode(component)

SpecDisp == InitDisp /\ [][NextDisp]_vars

\* the variant the parser rules give a leaf identifier
ParserVariant(name) ==
    IF \E k \in 1..(Len(name) - 1) : name[k] = "." /\ name[k + 1] = "."
    THEN "Paralog"
    ELSE IF Cardinality({k \in 1..Len(name) : name[k] = "_"}) = 4 THEN "Ranked"
    ELSE "Simple"

\* C9: every component that decodes a leaf identifier takes the branch of
\* the variant the parser rules give it and, where it derives an organism
\* code, derives the parser's: a double dot makes a Paralog with the text
\* before it, else 5 fields make a Ranked Candidate with field 0, else the
\* identifier is Simple with the text before the underscore.
C9_OneDispatch ==
    \A c \in DOMAIN decoded :
        /\ ParserVariant(leaf) \in decoded[c].variants
        /\ decoded[c].hasorg => decoded[c].org = ParserOrg(leaf)

\* on the identifiers that do not both hold a double dot and have 5 fields
\* the components agree with the parser rules
C9_AgreeOffOverlap ==
    ~(contains(leaf, DD) /\ count(leaf, US) = 4) => C9_OneDispatch

(***************************************************************************)
(* The classification table of tree_to_pdf (lines 156-274) and the two     *)
(* ways of __main__ (lines 421-432) to a table with contaminations.        *)
(***************************************************************************)
\* lines 212-266: the row of leaf k
table_row(t, k, contaminations_, top_ranked) ==
    LET name == t.name[k]
        f == split(name, US)
    IN  IF count(name, US) = 4
        THEN row(table_name_of(name), metadata[f[1]].group,
                 IF name \in contaminations_ THEN <<"d">>
                 ELSE IF name \in top_ranked THEN <<"o">>
                 ELSE <<"p">>)
        ELSE IF contains(name, DD)
        THEN LET para == f[1]
                 org == split(para, DD)[1]
             IN  row(metadata[org].full \o US \o f[2] \o AT \o para,
                     metadata[org].group, <<"p">>)
        ELSE row(display_simple(name), metadata[f[1]].group, <<"o">>)

RECURSIVE table_from(_, _, _, _)
\* lines 176-266: the rows of the leaves from node k on, in pre-order
table_from(t, k, contaminations_, top_ranked) ==
    IF k > Len(t.parent) THEN <<>>
    ELSE (IF ~is_root(t, k) /\ is_leaf(t, k)
          THEN table_row(t, k, contaminations_, top_ranked) ELSE <<>>)
         \o table_from(t, k + 1, contaminations_, top_ranked)

\* the text tree_to_pdf(tree_file, contaminations) writes to the table
tree_to_pdf(t, contaminations_) ==
    table_from(t, 1, contaminations_, get_best_candidates(t))

\* lines 133-153 in one step: what collect_contaminations returns, or the
\* error expected_neighborhood raises
collect_contaminations(t, cd) ==
    LET checked == {k \in Nodes(t) : IsChecked(t, k, cd)}
        answer(k) == expected_neighborhood(t, up(t, k), cd[split(t.name[k], US)[1]])
        hit == {k \in checked : check_contamination(answer(k))}
    IN  IF \E k \in checked : answer(k) \notin {"True", "False"}
        THEN [raised |-> TRUE, contaminations |-> {}, cont_table_name |-> {}]
        ELSE [raised |-> FALSE,
              contaminations |-> {t.name[k] : k \in hit},
              cont_table_name |-> {table_name_of(t.name[k]) : k \in hit}]

MaxNodesTwoPass == 6
NamesTwoPass == {cXh, cXk, lA, lB}

InitTwoPass ==
    /\ pc = "start"
    /\ IsTreeOf(tree, 3, MaxNodesTwoPass, NamesTwoPass, {100})
    /\ cont_dict \in ContDicts
    /\ n = None /\ parent = None
    /\ contaminations = {}
    /\ cont_table_name = {}
    /\ table = <<>>
    /\ original_table = None /\ cont_names = None
    /\ suspicious = None /\ top_seqs = None
    /\ IdleRed /\ IdleProb /\ IdlePool /\ IdleDisp

twoPassIdle == <<tree, cont_dict, n, parent, original_table, cont_names,
                 suspicious, top_seqs, redVars, probVars, poolVars, dispVars>>

\* a run without contaminations: line 432
NormalRun ==
    /\ pc = "start"
    /\ table' = tree_to_pdf(tree, {})
    /\ pc' = "classified"
    /\ UNCHANGED <<contaminations, cont_table_name, twoPassIdle>>

\* a later run with --contaminations and --backpropagate: lines 424-427
BackpropagationRun ==
    /\ pc = "classified"
    /\ LET got == collect_contaminations(tree, cont_dict)
       IN  IF got.raised
           THEN /\ pc' = "raised"
                /\ UNCHANGED <<table, contaminations, cont_table_name>>
           ELSE /\ contaminations' = got.contaminations
                /\ cont_table_name' = got.cont_table_name
                /\ table' = backpropagate_contamination(table, got.cont_table_name)
                /\ pc' = "backpropagated"
    /\ UNCHANGED twoPassIdle

\* one run with --contaminations: lines 424 and 429
SinglePassRun ==
    /\ pc = "start"
    /\ LET got == collect_contaminations(tree, cont_dict)
       IN  IF got.raised
           THEN /\ pc' = "raised"
                /\ UNCHANGED <<table, contaminations, cont_table_name>>
           ELSE /\ contaminations' = got.contaminations
                /\ cont_table_name' = got.cont_table_name
                /\ table' = tree_to_pdf(tree, got.contaminations)
                /\ pc' = "single pass"
    /\ UNCHANGED twoPassIdle

NextTwoPass == NormalRun \/ BackpropagationRun \/ SinglePassRun

SpecTwoPass == InitTwoPass /\ [][NextTwoPass]_vars

\* C10: the table the normal run followed by the backpropagation run leaves
\* is the table the single run with the directory writes: the same rows in
\* the same order, with d on the rows of the leaves of the contaminant set
\* and on no other row.
C10_TwoPassIsSinglePass ==
    pc = "backpropagated" => table = tree_to_pdf(tree, contaminations)

\* the two ways agree when no leaf outside the contaminant set shares the
\* display name of a contaminant
C10_AgreeWithoutSharedNames ==
    (/\ pc = "backpropagated"
     /\ \A k \in Nodes(tree) :
           (is_leaf(tree, k) /\ count(tree.name[k], US) = 4
              /\ table_name_of(tree.name[k]) \in cont_table_name)
           => tree.name[k] \in contaminations)
    => table = tree_to_pdf(tree, contaminations)

====
